---------------------------- MODULE Spec2Model ----------------------------
(***************************************************************************)
(* Model of the Costco car-rental price checker:                           *)
(*   src/src/run_price_checker.py      main (the batch loop)               *)
(*   src/src/services/price_checker.py PriceExtractor, SupabaseClient,     *)
(*                                     PriceChecker                        *)
(* The browser, the target page and the record store are the environment:  *)
(* every wait, lookup and insert draws its outcome nondeterministically.   *)
(***************************************************************************)
EXTENDS Integers, Sequences, FiniteSets, TLC

(***************************************************************************)
(* Bounds of the model.                                                    *)
(***************************************************************************)
\* number of rows of the bookings table a batch run may list
NumBookings == 2
\* number of div[role="row"] elements a results page may render
MaxRows == 2
\* number of entries the autocomplete suggestion list may hold
MaxSuggestions == 2
\* largest price handed to validate_price in SpecValidate (plus 8000, -1)
MaxPriceInput == 5001
\* polls a WebDriverWait makes without success before its timeout expires
MaxPolls == 1

(***************************************************************************)
(* Program constants.                                                      *)
(***************************************************************************)
MIN_PRICE == 20
MAX_PRICE == 5000

(***************************************************************************)
(* Value domains.                                                          *)
(***************************************************************************)
None == "None"

\* Text is a sequence of characters, so that XPath contains() is a real
\* substring test and not an equality.
Locations == { <<"a", "b">>, <<"c">> }
SuggestionTexts == { <<"a", "b">>, <<"a", "b", "c">>, <<"c", "a">> }
SuggestionLists ==
    UNION { [1..n -> SuggestionTexts] : n \in 0..MaxSuggestions }

TimeStrings == { "10:00 AM", "12:00 PM", "12:00 AM" }
\* the option lists a time <select> may render: Costco's own labels, or
\* plain clock times
OptionLists == { { "Midnight", "10:00 AM", "Noon" },
                 { "12:00 AM", "10:00 AM", "12:00 PM" } }

Categories == { "Economy", "SUV" }
\* values of the data-price attribute: numerals, or a text float() rejects
DataPrices == { "60", "8000", "n/a" }

\* the environment variables PriceCheckerConfig requires
Params == { "SUPABASE_URL", "SUPABASE_SERVICE_KEY", "CHROME_BINARY_PATH",
            "CHROMEDRIVER_PATH" }

\* a URL as the sequence of its path segments; SearchUrl is the address
\* check_prices navigates to
NoUrl == <<>>
SearchUrl == << "Rental-Cars" >>
Urls == { SearchUrl, << "Rental-Cars", "results" >>,
          << "Rental-Cars", "Vehicles" >>, << "error" >> }

NoBooking == [location |-> <<>>, pickup_date |-> <<>>, dropoff_date |-> <<>>,
              pickup_time |-> None, dropoff_time |-> None]
BookingRecords ==
    [location : Locations,
     pickup_date : { <<2024, 6, 1>> }, dropoff_date : { <<2024, 6, 5>> },
     pickup_time : TimeStrings, dropoff_time : TimeStrings]

\* a rendered result row: the text of .car-category-name (None: the element
\* is missing) and the data-price attribute of the lowest-price card
PageRows ==
    [category : Categories, data_price : DataPrices]
        \cup { [category |-> None, data_price |-> "60"] }
Pages == UNION { [1..n -> PageRows] : n \in 1..MaxRows }

(***************************************************************************)
(* State.                                                                  *)
(***************************************************************************)
VARIABLES
    pc,             \* position of the process in main / check_prices / fill_search_form
    bookings,       \* main: bookings.data, the ids listed from the store
    idx,            \* main: position of the for loop in bookings.data
    log,            \* main: what logging.info / logging.error emitted
    checked,        \* per finished check_prices call: [id, outcome] (observer)
    booking,        \* check_prices: the booking record read from the store
    driver,         \* the browser session: "none", "open", "quit"
    quits,          \* number of driver.quit() calls in the current check
    usedAfterQuit,  \* a browser operation was invoked on a quit session
    exc,            \* the exception in flight ("none": no exception)
    stages,         \* the stages the current check has completed, in order
    suggestions,    \* fill_search_form: the autocomplete list the page rendered
    clicked,        \* fill_search_form: [tier, text] of the suggestion clicked
    dropdown_exc,   \* fill_search_form: the exception the first lookup's
                    \* except clause has caught ("none": not in that clause)
    labels,         \* fill_search_form: labels passed to select_by_visible_text
    car_rows,       \* extract_prices: the rows read from the page
    prices,         \* check_prices: the dict returned by extract_prices
    price_history,  \* the rows of the price_history table
    v_price,        \* validate_price: argument price
    v_category,     \* validate_price: argument category
    v_result,       \* validate_price: the value returned (<<>>: not yet called)
    config,         \* which of the required environment variables are set
    polls,          \* polls the current bounded wait has made without success
    out,            \* what the current check has printed: [msg, data, failure]
    current_url,    \* fill_search_form: driver.current_url as last observed
    listings        \* fill_search_form: number of car listings the wait found

vars == << pc, bookings, idx, log, checked, booking, driver, quits,
           usedAfterQuit, exc, stages, suggestions, clicked, dropdown_exc,
           labels,
           car_rows, prices, price_history, v_price, v_category, v_result,
           config, polls, out, current_url, listings >>

mainVars == << bookings, idx, log >>
formVars == << suggestions, clicked, dropdown_exc, labels >>
validateVars == << v_price, v_category, v_result >>

(***************************************************************************)
(* Pure functions.                                                         *)
(***************************************************************************)

\* mutant of validate_price: the bounds themselves are rejected
validate_price_strict(price, category) ==
    IF ~(MIN_PRICE < price /\ price < MAX_PRICE) THEN FALSE ELSE TRUE

\* PriceExtractor.validate_price: MIN_PRICE <= price <= MAX_PRICE
validate_price(price, category) ==
    IF ~(MIN_PRICE <= price /\ price <= MAX_PRICE) THEN FALSE ELSE TRUE

\* float(price) of a data-price attribute: defined on numerals only
FloatOk(attr) == attr \in { "60", "8000" }
float(attr) ==
    CASE attr = "60" -> 60
      [] attr = "8000" -> 8000

\* a Python dict as the sequence of its <<key, value>> items in insertion
\* order; d[k] = v keeps the position of a key already present
DictKeys(d) == { d[i][1] : i \in 1..Len(d) }
DictSet(d, k, v) ==
    IF k \in DictKeys(d)
    THEN [i \in 1..Len(d) |-> IF d[i][1] = k THEN <<k, v>> ELSE d[i]]
    ELSE Append(d, <<k, v>>)

\* the body of the for loop of extract_prices for one row
\* mutant of ExtractRow: a row that cannot be read ends the extraction
\* with nothing
ExtractRowAbort(d, row) ==
    IF row.category = None THEN <<>>
    ELSE IF ~FloatOk(row.data_price) THEN <<>>
    ELSE DictSet(d, row.category, float(row.data_price))

ExtractRow(d, row) ==
    IF row.category = None THEN d                \* find_element raises: skipped
    ELSE IF ~FloatOk(row.data_price) THEN d      \* float() raises: skipped
    ELSE DictSet(d, row.category, float(row.data_price))

RECURSIVE ExtractFrom(_, _)
ExtractFrom(d, rows) ==
    IF rows = <<>> THEN d
    ELSE ExtractFrom(ExtractRow(d, Head(rows)), Tail(rows))

\* PriceExtractor.extract_prices on the rows find_elements returned
extract_prices(rows) == ExtractFrom(<<>>, rows)

\* min(prices.items(), key=lambda x: x[1]): the first item of least value
RECURSIVE MinScan(_, _)
MinScan(best, items) ==
    IF items = <<>> THEN best
    ELSE MinScan(IF Head(items)[2] < best[2] THEN Head(items) ELSE best,
                 Tail(items))
\* mutant of MinItem: a later item of equal value replaces the best one
RECURSIVE MinScanLast(_, _)
MinScanLast(best, items) ==
    IF items = <<>> THEN best
    ELSE MinScanLast(IF Head(items)[2] <= best[2] THEN Head(items) ELSE best,
                     Tail(items))
MinItemLast(items) == MinScanLast(Head(items), Tail(items))

MinItem(items) == MinScan(Head(items), Tail(items))

\* the data dict store_prices inserts
SnapshotRow(booking_id, d) ==
    [booking_id |-> booking_id, prices |-> d,
     lowest_price_category |-> MinItem(d)[1], lowest_price |-> MinItem(d)[2]]

\* fill_search_form.convert_time, the conversion the live form fill uses
convert_time(time_str) ==
    IF time_str = "12:00 PM" THEN "Noon" ELSE time_str

\* convert_to_costco_time of the trailing block of check_prices
convert_to_costco_time(time_str) ==
    IF time_str = "12:00 PM" THEN "Noon"
    ELSE IF time_str = "12:00 AM" THEN "Midnight"
    ELSE time_str

\* XPath contains(text(), s): s occurs in t as a substring
Contains(t, s) ==
    \E o \in 0..(Len(t) - Len(s)) : \A j \in 1..Len(s) : t[o + j] = s[j]

\* presence_of_element_located: the first element in document order that
\* matches; 0 when none does
FirstContaining(list, s) ==
    IF \E i \in 1..Len(list) : Contains(list[i], s)
    THEN CHOOSE i \in 1..Len(list) :
            /\ Contains(list[i], s)
            /\ \A j \in 1..(i - 1) : ~Contains(list[j], s)
    ELSE 0

(***************************************************************************)
(* Initial state: the process is about to enter main.                      *)
(***************************************************************************)
NoClick == [tier |-> 0, text |-> <<>>]

Init ==
    /\ pc = "main_start"
    /\ bookings = <<>>
    /\ idx = 0
    /\ log = <<>>
    /\ checked = <<>>
    /\ booking = NoBooking
    /\ driver = "none"
    /\ quits = 0
    /\ usedAfterQuit = FALSE
    /\ exc = "none"
    /\ stages = <<>>
    /\ suggestions = <<>>
    /\ clicked = NoClick
    /\ dropdown_exc = "none"
    /\ labels = <<>>
    /\ car_rows = <<>>
    /\ prices = <<>>
    /\ price_history = <<>>
    /\ v_price = 0
    /\ v_category = None
    /\ v_result = <<>>
    /\ config \in [Params -> BOOLEAN]
    /\ polls = 0
    /\ out = {}
    /\ current_url = NoUrl
    /\ listings = 0

(***************************************************************************)
(* main (run_price_checker.py).                                            *)
(***************************************************************************)

\* mutant of MainStart: only the two settings of the store are required
MainStartStoreOnly ==
    /\ pc = "main_start"
    /\ IF config["SUPABASE_URL"] /\ config["SUPABASE_SERVICE_KEY"]
          THEN /\ pc' = "main_list"
               /\ log' = log
          ELSE /\ pc' = "fatal"
               /\ log' = Append(log, "fatal")
    /\ UNCHANGED << bookings, idx, checked, booking, driver, quits,
                    usedAfterQuit, exc, stages, formVars, car_rows, prices,
                    price_history, validateVars,
                    config, polls, out, current_url, listings >>

\* load_dotenv, PriceCheckerConfig(), PriceChecker(config): a missing
\* environment variable raises ValueError, which main logs and re-raises
MainStart ==
    /\ pc = "main_start"
    /\ IF \A p \in Params : config[p]
          THEN /\ pc' = "main_list"
               /\ log' = log
          ELSE /\ pc' = "fatal"
               /\ log' = Append(log, "fatal")
    /\ UNCHANGED << bookings, idx, checked, booking, driver, quits,
                    usedAfterQuit, exc, stages, formVars, car_rows, prices,
                    price_history, validateVars,
                    config, polls, out, current_url, listings >>

\* bookings = ...table('bookings').select('id').execute(), and the early
\* return on an empty list
MainList ==
    /\ pc = "main_list"
    /\ \E n \in 0..NumBookings :
          /\ bookings' = [i \in 1..n |-> i]
          /\ IF n = 0
             THEN pc' = "done" /\ log' = Append(log, "no bookings") /\ idx' = 0
             ELSE pc' = "loop" /\ log' = log /\ idx' = 1
    /\ UNCHANGED << checked, booking, driver, quits, usedAfterQuit, exc,
                    stages, formVars, car_rows, prices, price_history,
                    validateVars,
                    config, polls, out, current_url, listings >>

\* the head of "for booking in bookings.data": the next call of
\* check_prices, or the completion message after the last one
MainLoop ==
    /\ pc = "loop"
    /\ IF idx > Len(bookings)
       THEN /\ pc' = "done"
            /\ log' = Append(log, "completed")
       ELSE /\ pc' = "cp_lookup"
            /\ log' = log
    /\ UNCHANGED << bookings, idx, checked, booking, driver, quits,
                    usedAfterQuit, exc, stages, formVars, car_rows, prices,
                    price_history, validateVars,
                    config, polls, out, current_url, listings >>

\* how a check ended, read off the stages it completed
Outcome(st) ==
    IF \E i \in 1..Len(st) : st[i] = "insert" THEN "stored"
    ELSE IF /\ \E i \in 1..Len(st) : st[i] = "navigate"
            /\ \A i \in 1..Len(st) : st[i] # "results_detected"
         THEN "form_failed"
    ELSE "failed"

\* mutant of MainAfterCheck: a check that raised is run once more before
\* the loop moves on to the next booking
MainAfterCheckRetry ==
    /\ pc = "main_after"
    /\ log' = Append(log, IF exc = "none" THEN "sleep" ELSE "error")
    /\ checked' = Append(checked, [id |-> bookings[idx], outcome |-> Outcome(stages)])
    /\ idx' = IF \/ exc = "none"
                 \/ (checked # <<>> /\ checked[Len(checked)].id = bookings[idx])
              THEN idx + 1 ELSE idx
    /\ pc' = "loop"
    /\ booking' = NoBooking
    /\ driver' = "none"
    /\ quits' = 0
    /\ usedAfterQuit' = FALSE
    /\ exc' = "none"
    /\ stages' = <<>>
    /\ prices' = <<>>
    /\ out' = {}
    /\ UNCHANGED << bookings, formVars, car_rows, price_history,
                    validateVars,
                    config, polls, current_url, listings >>

\* mutant of MainAfterCheck: the exception of a check is not caught in the
\* loop and reaches the handler of main
MainAfterCheckPropagate ==
    /\ pc = "main_after"
    /\ IF exc = "none"
       THEN /\ log' = Append(log, "sleep")
            /\ idx' = idx + 1
            /\ pc' = "loop"
       ELSE /\ log' = Append(log, "fatal")
            /\ idx' = idx
            /\ pc' = "fatal"
    /\ checked' = Append(checked, [id |-> bookings[idx], outcome |-> Outcome(stages)])
    /\ booking' = NoBooking
    /\ driver' = "none"
    /\ quits' = 0
    /\ usedAfterQuit' = FALSE
    /\ exc' = "none"
    /\ stages' = <<>>
    /\ prices' = <<>>
    /\ out' = {}
    /\ UNCHANGED << bookings, formVars, car_rows, price_history,
                    validateVars,
                    config, polls, current_url, listings >>

\* check_prices has returned or raised: asyncio.sleep(5) after a return,
\* logging.error and continue after an exception. The frame of
\* check_prices is gone: its locals return to their initial values.
MainAfterCheck ==
    /\ pc = "main_after"
    /\ log' = Append(log, IF exc = "none" THEN "sleep" ELSE "error")
    /\ checked' = Append(checked, [id |-> bookings[idx], outcome |-> Outcome(stages)])
    /\ idx' = idx + 1
    /\ pc' = "loop"
    /\ booking' = NoBooking
    /\ driver' = "none"
    /\ quits' = 0
    /\ usedAfterQuit' = FALSE
    /\ exc' = "none"
    /\ stages' = <<>>
    /\ prices' = <<>>
    /\ out' = {}
    /\ UNCHANGED << bookings, formVars, car_rows, price_history,
                    validateVars,
                    config, polls, current_url, listings >>

(***************************************************************************)
(* PriceChecker.check_prices, up to the call of fill_search_form.          *)
(***************************************************************************)

\* table('bookings').select('*').eq('id', booking_id).execute(): the query
\* raises, returns no row ("Booking not found"), or returns the booking
CheckLookup ==
    /\ pc = "cp_lookup"
    /\ \/ /\ \E b \in BookingRecords : booking' = b
          /\ pc' = "cp_setup"
          /\ exc' = exc
       \/ /\ booking' = booking
          /\ pc' = "cp_outer_except"
          /\ exc' = "Exception"
    /\ UNCHANGED << mainVars, checked, driver, quits, usedAfterQuit, stages,
                    formVars, car_rows, prices, price_history, validateVars,
                    config, polls, out, current_url, listings >>

\* driver = self.setup_driver(): webdriver.Chrome(...) returns a session,
\* or raises and no session exists
SetupDriver ==
    /\ pc = "cp_setup"
    /\ \/ /\ driver' = "open"
          /\ stages' = Append(stages, "acquire")
          /\ pc' = "cp_navigate"
          /\ exc' = exc
       \/ /\ driver' = driver
          /\ stages' = stages
          /\ pc' = "cp_outer_except"
          /\ exc' = "WebDriverException"
    /\ UNCHANGED << mainVars, checked, booking, quits, usedAfterQuit,
                    formVars, car_rows, prices, price_history, validateVars,
                    config, polls, out, current_url, listings >>

\* driver.get(...), the first screenshot and the sleep before the form fill
Navigate ==
    /\ pc = "cp_navigate"
    /\ \/ /\ pc' = "fs_wait_form"
          /\ exc' = exc
          /\ stages' = Append(stages, "navigate")
       \/ /\ pc' = "cp_handler"
          /\ exc' = "WebDriverException"
          /\ stages' = stages
    /\ UNCHANGED << mainVars, checked, booking, driver, quits, usedAfterQuit,
                    formVars, car_rows, prices, price_history, validateVars,
                    config, polls, out, current_url, listings >>

(***************************************************************************)
(* PriceChecker.fill_search_form.                                          *)
(***************************************************************************)

\* a step of fill_search_form raises: control moves to its except clause
FormRaise(kind) ==
    /\ pc' = "fs_handler"
    /\ exc' = kind

\* WebDriverWait(driver, 20) for pickupLocationTextWidget, the screenshot,
\* and the location input: click, clear, send_keys(booking['location'])
FormEnterLocation ==
    /\ pc = "fs_wait_form"
    /\ \/ /\ pc' = "fs_dropdown"
          /\ exc' = exc
          /\ stages' = Append(stages, "location_entered")
       \/ /\ polls = MaxPolls
          /\ FormRaise("TimeoutException")
          /\ stages' = stages
    /\ polls' = 0
    /\ UNCHANGED << mainVars, checked, booking, driver, quits, usedAfterQuit,
                    formVars, car_rows, prices, price_history, validateVars,
                    config, out, current_url, listings >>

\* what "ul.ui-autocomplete li:first-child" can match in a suggestion list
FirstChild(list) == IF list = <<>> THEN <<>> ELSE << list[1] >>

\* the first lookup of the suggestion: an element whose text contains the
\* location; the first such element in document order is clicked. The
\* except clause of the lookup catches every exception, the timeout of the
\* wait as well as a click that raises on the element found, prints it and
\* goes on to the fallback, whose selector (li:first-child) reads nothing
\* of the list but its first item
FormSelectDropdown ==
    /\ pc = "fs_dropdown"
    /\ \E list \in SuggestionLists :
          LET i == FirstContaining(list, booking.location) IN
             IF i # 0
             THEN \/ /\ suggestions' = list
                     /\ clicked' = [tier |-> 1, text |-> list[i]]
                     /\ stages' = Append(stages, "location_confirmed")
                     /\ pc' = "fs_dates"
                     /\ dropdown_exc' = "none"
                  \/ /\ suggestions' = FirstChild(list)
                     /\ clicked' = clicked
                     /\ stages' = stages
                     /\ pc' = "fs_fallback"
                     /\ dropdown_exc' = "WebDriverException"
             ELSE /\ polls = MaxPolls
                  /\ suggestions' = FirstChild(list)
                  /\ clicked' = clicked
                  /\ stages' = stages
                  /\ pc' = "fs_fallback"
                  /\ dropdown_exc' = "TimeoutException"
    /\ polls' = 0
    /\ UNCHANGED << mainVars, checked, booking, driver, quits, usedAfterQuit,
                    exc, labels, car_rows, prices, price_history,
                    validateVars,
                    config, out, current_url, listings >>

\* the fallback, inside the except clause of the first lookup:
\* ul.ui-autocomplete li:first-child is clicked; a timeout of its wait, or
\* a click that raises, is printed and re-raised
FormFallbackDropdown ==
    /\ pc = "fs_fallback"
    /\ IF Len(suggestions) > 0
       THEN \/ /\ clicked' = [tier |-> 2, text |-> suggestions[1]]
               /\ stages' = Append(stages, "location_confirmed")
               /\ pc' = "fs_dates"
               /\ exc' = exc
            \/ /\ clicked' = clicked
               /\ stages' = stages
               /\ FormRaise("WebDriverException")
       ELSE /\ polls = MaxPolls
            /\ clicked' = clicked
            /\ stages' = stages
            /\ FormRaise("TimeoutException")
    /\ dropdown_exc' = "none"
    /\ polls' = 0
    /\ UNCHANGED << mainVars, checked, booking, driver, quits, usedAfterQuit,
                    suggestions, labels, car_rows, prices, price_history,
                    validateVars,
                    config, out, current_url, listings >>

\* time.sleep(1) lets the suggestion list close; the dates are formatted
\* and written into the date widgets, with the change events; find_element
\* may raise
FormSetDates ==
    /\ pc = "fs_dates"
    /\ suggestions' = <<>>
    /\ clicked' = NoClick
    /\ dropdown_exc' = "none"
    /\ \/ /\ pc' = "fs_times"
          /\ exc' = exc
          /\ stages' = Append(stages, "dates_set")
       \/ /\ FormRaise("NoSuchElementException")
          /\ stages' = stages
    /\ UNCHANGED << mainVars, checked, booking, driver, quits, usedAfterQuit,
                    labels, car_rows, prices, price_history,
                    validateVars,
                    config, polls, out, current_url, listings >>

\* mutant of FormSetTimes: a label that is not an option is skipped and
\* the form fill goes on to the age checkbox
FormSetTimesSkip ==
    /\ pc = "fs_times"
    /\ \/ /\ polls = MaxPolls
          /\ FormRaise("TimeoutException")
          /\ UNCHANGED << labels, stages >>
       \/ \E options \in OptionLists :
            LET p == convert_time(booking.pickup_time)
                d == convert_time(booking.dropoff_time)
            IN  /\ labels' = << p, d >>
                /\ stages' = IF p \in options /\ d \in options
                              THEN Append(stages, "times_set") ELSE stages
                /\ pc' = "fs_age"
                /\ exc' = exc
    /\ polls' = 0
    /\ UNCHANGED << mainVars, checked, booking, driver, quits, usedAfterQuit,
                    suggestions, clicked, dropdown_exc, car_rows, prices,
                    price_history,
                    validateVars,
                    config, out, current_url, listings >>

\* the waits for the two time widgets, then select_by_visible_text of the
\* converted pickup time and of the converted dropoff time; a label that
\* is not an option raises NoSuchElementException
FormSetTimes ==
    /\ pc = "fs_times"
    /\ \/ /\ polls = MaxPolls
          /\ FormRaise("TimeoutException")
          /\ UNCHANGED << labels, stages >>
       \/ \E options \in OptionLists :
            LET p == convert_time(booking.pickup_time)
                d == convert_time(booking.dropoff_time)
            IN  IF p \notin options
                THEN /\ labels' = << p >>
                     /\ stages' = stages
                     /\ FormRaise("NoSuchElementException")
                ELSE IF d \notin options
                THEN /\ labels' = << p, d >>
                     /\ stages' = stages
                     /\ FormRaise("NoSuchElementException")
                ELSE /\ labels' = << p, d >>
                     /\ stages' = Append(stages, "times_set")
                     /\ pc' = "fs_age"
                     /\ exc' = exc
    /\ polls' = 0
    /\ UNCHANGED << mainVars, checked, booking, driver, quits, usedAfterQuit,
                    suggestions, clicked, dropdown_exc, car_rows, prices,
                    price_history,
                    validateVars,
                    config, out, current_url, listings >>

\* the wait for driversAgeWidget and the click when it is not selected
FormAgeCheckbox ==
    /\ pc = "fs_age"
    /\ \/ /\ pc' = "fs_search"
          /\ exc' = exc
          /\ stages' = Append(stages, "age_confirmed")
       \/ /\ polls = MaxPolls
          /\ FormRaise("TimeoutException")
          /\ stages' = stages
    /\ polls' = 0
    /\ UNCHANGED << mainVars, checked, booking, driver, quits, usedAfterQuit,
                    formVars, car_rows, prices, price_history, validateVars,
                    config, out, current_url, listings >>

\* the screenshot, the wait for findMyCarButton and the click
FormClickSearch ==
    /\ pc = "fs_search"
    /\ \/ /\ pc' = "fs_wait_url"
          /\ exc' = exc
          /\ stages' = Append(stages, "search_submitted")
       \/ /\ polls = MaxPolls
          /\ FormRaise("TimeoutException")
          /\ stages' = stages
    /\ polls' = 0
    /\ UNCHANGED << mainVars, checked, booking, driver, quits, usedAfterQuit,
                    formVars, car_rows, prices, price_history, validateVars,
                    config, out, current_url, listings >>

\* d.current_url.lower(), segment by segment
Lower(segment) ==
    CASE segment = "Rental-Cars" -> "rental-cars"
      [] segment = "Vehicles" -> "vehicles"
      [] OTHER -> segment
LowerUrl(url) == [i \in 1..Len(url) |-> Lower(url[i])]

\* the condition of the URL wait:
\* "results" in d.current_url.lower() or "vehicles" in d.current_url.lower()
IsResultsUrl(url) ==
    \/ Contains(LowerUrl(url), << "results" >>)
    \/ Contains(LowerUrl(url), << "vehicles" >>)

\* one line of output of the current check: the message, the data it
\* carries, and whether an except clause printed it
Printed(msg, data, failure) == [msg |-> msg, data |-> data, failure |-> failure]

\* mutant of WaitPoll: the wait has no timeout and polls for ever
WaitPollForever ==
    /\ pc \in { "fs_wait_form", "fs_dropdown", "fs_fallback", "fs_times",
                "fs_age", "fs_search", "fs_wait_url", "fs_wait_listings",
                "cp_extract" }
    /\ polls' = (polls + 1) % (MaxPolls + 1)
    /\ UNCHANGED << pc, mainVars, checked, booking, driver, quits,
                    usedAfterQuit, exc, stages, formVars, car_rows, prices,
                    price_history, validateVars, config, out, current_url,
                    listings >>

\* WebDriverWait.until: the condition does not hold yet and the timeout has
\* not expired, so the wait sleeps and polls again
WaitPoll ==
    /\ pc \in { "fs_wait_form", "fs_dropdown", "fs_fallback", "fs_times",
                "fs_age", "fs_search", "fs_wait_url", "fs_wait_listings",
                "cp_extract" }
    /\ polls < MaxPolls
    /\ polls' = polls + 1
    /\ UNCHANGED << pc, mainVars, checked, booking, driver, quits,
                    usedAfterQuit, exc, stages, formVars, car_rows, prices,
                    price_history, validateVars, config, out, current_url,
                    listings >>

\* the inner try: WebDriverWait(driver, 30) for "results" or "vehicles" in
\* the URL. A timeout reaches "except TimeoutException", a name the module
\* never imports: evaluating it raises NameError, which goes to the outer
\* except clause
FormWaitUrl ==
    /\ pc = "fs_wait_url"
    /\ \E url \in Urls :
          /\ current_url' = url
          /\ IF IsResultsUrl(url)
             THEN /\ pc' = "fs_wait_listings"
                  /\ exc' = exc
             ELSE /\ polls = MaxPolls
                  /\ FormRaise("NameError")
    /\ polls' = 0
    /\ UNCHANGED << mainVars, checked, booking, driver, quits, usedAfterQuit,
                    stages, formVars, car_rows, prices, price_history,
                    validateVars, config, out, listings >>

\* mutant of FormWaitListings: the listings are read with find_elements,
\* which returns at once, also with an empty list
FormWaitListingsAnyCount ==
    /\ pc = "fs_wait_listings"
    /\ \E n \in 0..MaxRows : listings' = n
    /\ pc' = "cp_extract"
    /\ exc' = exc
    /\ stages' = Append(stages, "results_detected")
    /\ suggestions' = <<>>
    /\ clicked' = NoClick
    /\ dropdown_exc' = "none"
    /\ labels' = <<>>
    /\ booking' = NoBooking
    /\ polls' = 0
    /\ UNCHANGED << mainVars, checked, driver, quits, usedAfterQuit,
                    car_rows, prices, price_history, validateVars,
                    config, out, current_url >>

\* WebDriverWait(driver, 60) for the car listings (presence_of_all_elements_
\* located holds once at least one is present), the screenshot, the final
\* sleep and the return of fill_search_form, whose locals end with it;
\* check_prices does not read the booking record again. A timeout raises
\* NameError like the one of the URL wait.
FormWaitListings ==
    /\ pc = "fs_wait_listings"
    /\ \E n \in 0..MaxRows :
          /\ listings' = n
          /\ IF n > 0
             THEN /\ pc' = "cp_extract"
                  /\ exc' = exc
                  /\ stages' = Append(stages, "results_detected")
                  /\ suggestions' = <<>>
                  /\ clicked' = NoClick
                  /\ dropdown_exc' = "none"
                  /\ labels' = <<>>
                  /\ booking' = NoBooking
             ELSE /\ polls = MaxPolls
                  /\ FormRaise("NameError")
                  /\ UNCHANGED << stages, formVars, booking >>
    /\ polls' = 0
    /\ UNCHANGED << mainVars, checked, driver, quits, usedAfterQuit,
                    car_rows, prices, price_history, validateVars,
                    config, out, current_url >>

\* mutant of FormHandler: the except clause logs the error and returns,
\* so that check_prices goes on to the extraction
FormHandlerSwallow ==
    /\ pc = "fs_handler"
    /\ exc' = "none"
    /\ pc' = "cp_extract"
    /\ suggestions' = <<>>
    /\ clicked' = NoClick
    /\ dropdown_exc' = "none"
    /\ labels' = <<>>
    /\ booking' = NoBooking
    /\ out' = out \cup { Printed("Error details", "exception", TRUE) }
    /\ UNCHANGED << mainVars, checked, driver, quits, usedAfterQuit,
                    stages, car_rows, prices, price_history, validateVars,
                    config, polls, current_url, listings >>

\* "except Exception" of fill_search_form: the exception type and message
\* are printed, then the diagnostics (driver.current_url, the screenshot,
\* the page source) and the re-raise; a diagnostic that raises replaces the
\* exception in flight and ends the clause. The locals of fill_search_form
\* end.
FormHandler ==
    /\ pc = "fs_handler"
    /\ \/ /\ exc' = exc
          /\ out' = out \cup { Printed("Error details", "exception", TRUE),
                               Printed("Current URL", "url", TRUE),
                               Printed("Page source", "page", TRUE) }
       \/ /\ exc' = "WebDriverException"
          /\ out' = out \cup { Printed("Error details", "exception", TRUE) }
       \/ /\ exc' = "WebDriverException"
          /\ out' = out \cup { Printed("Error details", "exception", TRUE),
                               Printed("Current URL", "url", TRUE) }
    /\ pc' = "cp_handler"
    /\ suggestions' = <<>>
    /\ clicked' = NoClick
    /\ dropdown_exc' = "none"
    /\ labels' = <<>>
    /\ booking' = NoBooking
    /\ current_url' = NoUrl
    /\ listings' = 0
    /\ UNCHANGED << mainVars, checked, driver, quits, usedAfterQuit,
                    stages, car_rows, prices, price_history, validateVars,
                    config, polls >>

(***************************************************************************)
(* PriceChecker.check_prices, after fill_search_form.                      *)
(***************************************************************************)

\* a step of the inner try of check_prices raises
CheckRaise(kind) ==
    /\ pc' = "cp_handler"
    /\ exc' = kind

\* the screenshot after the search, then extractor.extract_prices(): the
\* wait for a row (30 s), find_elements and the loop over the rows, which
\* prints every category and price it stores. What fill_search_form last
\* observed of the page is behind.
ExtractPrices ==
    /\ pc = "cp_extract"
    /\ \/ /\ CheckRaise("WebDriverException")
          /\ UNCHANGED << car_rows, prices, stages, out >>
       \/ /\ polls = MaxPolls
          /\ CheckRaise("TimeoutException")
          /\ UNCHANGED << car_rows, prices, stages, out >>
       \/ \E rows \in Pages :
            /\ car_rows' = rows
            /\ prices' = extract_prices(rows)
            /\ out' = out \cup
                  (IF extract_prices(rows) = <<>> THEN {}
                   ELSE { Printed("Found", "quote", FALSE) })
            /\ stages' = Append(stages, "extract")
            /\ pc' = "cp_store"
            /\ exc' = exc
    /\ polls' = 0
    /\ current_url' = NoUrl
    /\ listings' = 0
    /\ UNCHANGED << mainVars, checked, booking, driver, quits, usedAfterQuit,
                    formVars, price_history, validateVars, config >>

\* mutant of store_prices: the snapshot is written over the stored history
\* instead of being added to it
store_prices_overwrite(booking_id, d) ==
    IF d = <<>>
    THEN /\ CheckRaise("ValueError")
         /\ out' = out \cup { Printed("Error storing prices", "exception", TRUE) }
         /\ UNCHANGED << price_history, stages >>
    ELSE \/ /\ CheckRaise("APIError")
            /\ out' = out \cup { Printed("Error storing prices", "exception", TRUE) }
            /\ UNCHANGED << price_history, stages >>
         \/ /\ CheckRaise("Exception")
            /\ out' = out \cup { Printed("Error storing prices", "exception", TRUE) }
            /\ UNCHANGED << price_history, stages >>
         \/ /\ price_history' = << SnapshotRow(booking_id, d) >>
            /\ out' = out \cup { Printed("Stored prices", "booking_id", FALSE) }
            /\ stages' = Append(stages, "insert")
            /\ pc' = "cp_finally"
            /\ exc' = exc

\* mutant of store_prices: min() is given a default, so an empty dict is
\* inserted like any other
store_prices_default(booking_id, d) ==
    \/ /\ CheckRaise("APIError")
       /\ out' = out \cup { Printed("Error storing prices", "exception", TRUE) }
       /\ UNCHANGED << price_history, stages >>
    \/ /\ CheckRaise("Exception")
       /\ out' = out \cup { Printed("Error storing prices", "exception", TRUE) }
       /\ UNCHANGED << price_history, stages >>
    \/ /\ price_history' = Append(price_history,
              IF d = <<>>
              THEN [booking_id |-> booking_id, prices |-> d,
                    lowest_price_category |-> None, lowest_price |-> 0]
              ELSE SnapshotRow(booking_id, d))
       /\ out' = out \cup { Printed("Stored prices", "booking_id", FALSE) }
       /\ stages' = Append(stages, "insert")
       /\ pc' = "cp_finally"
       /\ exc' = exc

\* SupabaseClient.store_prices(booking_id, d) against the store: min() of
\* an empty dict raises ValueError before any insert; the insert raises,
\* returns no row ("Failed to insert price history"), or appends the row.
\* Every exception is printed and re-raised.
store_prices(booking_id, d) ==
    IF d = <<>>
    THEN /\ CheckRaise("ValueError")
         /\ out' = out \cup { Printed("Error storing prices", "exception", TRUE) }
         /\ UNCHANGED << price_history, stages >>
    ELSE \/ /\ CheckRaise("APIError")
            /\ out' = out \cup { Printed("Error storing prices", "exception", TRUE) }
            /\ UNCHANGED << price_history, stages >>
         \/ /\ CheckRaise("Exception")
            /\ out' = out \cup { Printed("Error storing prices", "exception", TRUE) }
            /\ UNCHANGED << price_history, stages >>
         \/ /\ price_history' = Append(price_history, SnapshotRow(booking_id, d))
            /\ out' = out \cup { Printed("Stored prices", "booking_id", FALSE) }
            /\ stages' = Append(stages, "insert")
            /\ pc' = "cp_finally"
            /\ exc' = exc

\* self.supabase.store_prices(booking_id, prices), the last statement of
\* the inner try; the rows extract_prices read are no longer referenced
StorePrices ==
    /\ pc = "cp_store"
    /\ store_prices(bookings[idx], prices)
    /\ car_rows' = <<>>
    /\ UNCHANGED << mainVars, checked, booking, driver, quits, usedAfterQuit,
                    formVars, prices, validateVars,
                    config, polls, current_url, listings >>

\* the inner "except Exception": the message of the exception is printed,
\* then the error screenshot and the head of the page source, and the
\* re-raise; a diagnostic that raises replaces the exception in flight
CheckHandler ==
    /\ pc = "cp_handler"
    /\ \/ /\ exc' = exc
          /\ out' = out \cup { Printed("Error during price check", "exception", TRUE),
                               Printed("Page source", "page", TRUE) }
       \/ /\ exc' = "WebDriverException"
          /\ out' = out \cup { Printed("Error during price check", "exception", TRUE) }
    /\ pc' = "cp_finally"
    /\ UNCHANGED << mainVars, checked, booking, driver, quits, usedAfterQuit,
                    stages, formVars, car_rows, prices, price_history,
                    validateVars,
                    config, polls, current_url, listings >>

\* mutant of CheckFinally: driver.quit() is the last statement of the try
\* block instead of a finally clause, so an exception skips it
CheckFinallyOnSuccessOnly ==
    /\ pc = "cp_finally"
    /\ IF exc = "none"
       THEN /\ driver' = "quit"
            /\ quits' = quits + 1
            /\ stages' = Append(stages, "release")
            /\ exc' = exc
            /\ pc' = "cp_trailing"
       ELSE /\ UNCHANGED << driver, quits, stages, exc >>
            /\ pc' = "cp_outer_except"
    /\ UNCHANGED << mainVars, checked, booking, usedAfterQuit, formVars,
                    car_rows, prices, price_history, validateVars,
                    config, polls, out, current_url, listings >>

\* the finally clause: driver.quit(), which may itself raise; then the
\* exception in flight, if any, continues to the outer except clause
CheckFinally ==
    /\ pc = "cp_finally"
    /\ driver' = "quit"
    /\ quits' = quits + 1
    /\ stages' = Append(stages, "release")
    /\ \/ /\ exc' = exc
          /\ pc' = IF exc = "none" THEN "cp_trailing" ELSE "cp_outer_except"
       \/ /\ exc' = "WebDriverException"
          /\ pc' = "cp_outer_except"
    /\ UNCHANGED << mainVars, checked, booking, usedAfterQuit, formVars,
                    car_rows, prices, price_history, validateVars,
                    config, polls, out, current_url, listings >>

\* the outer "except Exception": print and re-raise to the caller
CheckOuterExcept ==
    /\ pc = "cp_outer_except"
    /\ pc' = "main_after"
    /\ out' = out \cup { Printed("Error checking prices", "exception", TRUE) }
    /\ UNCHANGED << mainVars, checked, booking, driver, quits, usedAfterQuit,
                    exc, stages, formVars, car_rows, prices, price_history,
                    validateVars,
                    config, polls, current_url, listings >>

\* the statements that follow the outer try of check_prices (the body of
\* an older fill_search_form whose def line is commented out). They run
\* when the outer try ended without an exception, on the session that the
\* finally clause has quit: the first WebDriverWait raises, the handler's
\* save_screenshot raises in turn, and check_prices exits by exception
CheckTrailing ==
    /\ pc = "cp_trailing"
    /\ usedAfterQuit' = (driver = "quit")
    /\ exc' = "WebDriverException"
    /\ pc' = "main_after"
    /\ out' = out \cup { Printed("Error filling search form", "exception", TRUE) }
    /\ UNCHANGED << mainVars, checked, booking, driver, quits, stages,
                    formVars, car_rows, prices, price_history, validateVars,
                    config, polls, current_url, listings >>

(***************************************************************************)
(* The batch run.                                                          *)
(***************************************************************************)
Next ==
    \/ MainStart
    \/ MainList
    \/ MainLoop
    \/ MainAfterCheck
    \/ CheckLookup
    \/ SetupDriver
    \/ Navigate
    \/ FormEnterLocation
    \/ FormSelectDropdown
    \/ FormFallbackDropdown
    \/ FormSetDates
    \/ FormSetTimes
    \/ FormAgeCheckbox
    \/ FormClickSearch
    \/ FormWaitUrl
    \/ FormWaitListings
    \/ WaitPoll
    \/ FormHandler
    \/ ExtractPrices
    \/ StorePrices
    \/ CheckHandler
    \/ CheckFinally
    \/ CheckOuterExcept
    \/ CheckTrailing

Spec == Init /\ [][Next]_vars

\* the run as the interpreter executes it: main is one coroutine on one
\* thread, so whenever a statement can run, the next one does
SpecLive == Init /\ [][Next]_vars /\ WF_vars(Next)

(***************************************************************************)
(* validate_price on its own: the program never calls it, so its inputs    *)
(* are drawn here and one call is applied to each.                         *)
(***************************************************************************)
PriceInputs == (-1..MaxPriceInput) \cup { 8000 }

InitValidate ==
    /\ pc = "validate"
    /\ bookings = <<>>
    /\ idx = 0
    /\ log = <<>>
    /\ checked = <<>>
    /\ booking = NoBooking
    /\ driver = "none"
    /\ quits = 0
    /\ usedAfterQuit = FALSE
    /\ exc = "none"
    /\ stages = <<>>
    /\ suggestions = <<>>
    /\ clicked = NoClick
    /\ dropdown_exc = "none"
    /\ labels = <<>>
    /\ car_rows = <<>>
    /\ prices = <<>>
    /\ price_history = <<>>
    /\ v_price \in PriceInputs
    /\ v_category \in Categories
    /\ v_result = <<>>
    /\ config = [p \in Params |-> TRUE]
    /\ polls = 0
    /\ out = {}
    /\ current_url = NoUrl
    /\ listings = 0

\* one call validate_price(v_price, v_category) and its return
ValidatePrice ==
    /\ pc = "validate"
    /\ v_result = <<>>
    /\ v_result' = << validate_price(v_price, v_category) >>
    /\ pc' = "validated"
    /\ UNCHANGED << mainVars, checked, booking, driver, quits, usedAfterQuit,
                    exc, stages, formVars, car_rows, prices, price_history,
                    v_price, v_category,
                    config, polls, out, current_url, listings >>

NextValidate == ValidatePrice

SpecValidate == InitValidate /\ [][NextValidate]_vars

(***************************************************************************)
(* Properties.                                                             *)
(***************************************************************************)
InStages(name) == \E i \in 1..Len(stages) : stages[i] = name
StagePos(name) == CHOOSE i \in 1..Len(stages) : stages[i] = name
RowsOf(id) == { i \in 1..Len(price_history) : price_history[i].booking_id = id }

\* C1: when check_prices exits, a session that setup_driver returned has
\* been quit exactly once, whichever step raised (or none); when
\* setup_driver failed there is no session and no quit; quit is never called
\* twice and never without a session.
C1_ReleasedExactlyOnce ==
    /\ quits <= 1
    /\ (driver = "none") => (quits = 0)
    /\ (pc = "main_after") =>
          \/ driver = "none" /\ quits = 0 /\ ~InStages("acquire")
          \/ driver = "quit" /\ quits = 1 /\ InStages("acquire")

\* C1 witness: a check whose form fill raised has exited with its session
\* quit once.
C1_Witness ==
    /\ pc = "main_after"
    /\ Outcome(stages) = "form_failed"
    /\ exc # "none"
    /\ driver = "quit"
    /\ quits = 1

\* C2: when the batch is over every listed reservation has been checked, in
\* order, and every check whose insert succeeded has its row in
\* price_history, whatever happened to the other checks; main's fatal
\* handler is reached before the loop only, never from a check.
C2_FailureIsolation ==
    /\ (pc = "fatal") => (idx = 0 /\ checked = <<>>)
    /\ (pc = "done" /\ bookings # <<>>) =>
          /\ Len(checked) = Len(bookings)
          /\ \A k \in 1..Len(bookings) :
                /\ checked[k].id = bookings[k]
                /\ (checked[k].outcome = "stored") =>
                      Cardinality(RowsOf(bookings[k])) = 1

\* C2 witness: a batch has ended in which one reservation failed in the form
\* interaction and a later one was stored.
C2_Witness ==
    /\ pc = "done"
    /\ \E k \in 1..Len(checked) : \E j \in 1..Len(checked) :
          /\ k < j
          /\ checked[k].outcome = "form_failed"
          /\ checked[j].outcome = "stored"
          /\ RowsOf(checked[j].id) # {}

\* C3 (as claimed): every row of price_history has a non-empty prices
\* mapping whose every entry passes validate_price.
C3_OnlyValidatedPersisted ==
    \A i \in 1..Len(price_history) :
        LET d == price_history[i].prices IN
        /\ d # <<>>
        /\ \A j \in 1..Len(d) : validate_price(d[j][2], d[j][1])

\* C4: a call of store_prices with an empty mapping leaves price_history as
\* it was and raises, at every call of a batch.
C4_EmptyQuoteNotStored ==
    [][ (pc = "cp_store" /\ prices = <<>>) =>
          /\ price_history' = price_history
          /\ pc' = "cp_handler"
          /\ exc' # "none" ]_vars

\* C4 witness: store_prices has raised on an empty mapping (the ValueError
\* of min()) in the second check of a batch, after a row was stored.
C4_Witness ==
    /\ pc = "cp_handler"
    /\ exc = "ValueError"
    /\ prices = <<>>
    /\ idx = 2
    /\ price_history # <<>>

\* C5: in every inserted row lowest_price is the least value of the
\* mapping, and lowest_price_category is the first key, in the mapping's
\* order, that has this value.
C5_LowestIsFirstMinimum ==
    \A i \in 1..Len(price_history) :
        LET r == price_history[i]
            d == r.prices
        IN  \E m \in 1..Len(d) :
              /\ d[m] = << r.lowest_price_category, r.lowest_price >>
              /\ \A j \in 1..Len(d) : d[j][2] >= r.lowest_price
              /\ \A j \in 1..(m - 1) : d[j][2] > r.lowest_price

\* C5 witness: a row was inserted for a mapping in which two categories
\* share the least price.
C5_Witness ==
    \E i \in 1..Len(price_history) :
        LET d == price_history[i].prices IN
        /\ Len(d) = 2
        /\ d[1][2] = d[2][2]
        /\ price_history[i].lowest_price_category = d[1][1]

\* C6: within a check the stages acquire, search submitted, results
\* detected, extract, insert happen at most once and in this order, each
\* only after all the earlier ones; the insert happens with no exception in
\* flight; a check that has not detected results has no row in
\* price_history.
C6_StagesInOrder ==
    LET order == << "acquire", "search_submitted", "results_detected",
                    "extract", "insert" >>
    IN  /\ \A a \in 1..Len(order) :
              /\ Cardinality({ i \in 1..Len(stages) : stages[i] = order[a] }) <= 1
              /\ InStages(order[a]) =>
                    \A b \in 1..(a - 1) :
                        /\ InStages(order[b])
                        /\ StagePos(order[b]) < StagePos(order[a])
        /\ (pc = "cp_finally" /\ InStages("insert")) => exc = "none"
        /\ (idx \in 1..Len(bookings) /\ ~InStages("results_detected")) =>
              RowsOf(bookings[idx]) = {}
        /\ (idx \in 1..Len(bookings) /\ RowsOf(bookings[idx]) # {}) =>
              InStages("insert")

\* C6 witness: a check has exited after the search was submitted and the
\* results were never detected; nothing was stored for it.
C6_Witness ==
    /\ pc = "main_after"
    /\ InStages("search_submitted")
    /\ ~InStages("results_detected")
    /\ RowsOf(bookings[idx]) = {}

\* C7 (as claimed): the mapping extract_prices returns holds no price
\* outside the bound.
C7_ExtractedWithinBounds ==
    (pc = "cp_store") =>
        \A j \in 1..Len(prices) : validate_price(prices[j][2], prices[j][1])

\* C8 (as claimed): validate_price returns true exactly for the prices
\* strictly between 20 and 5000.
C8_StrictBounds ==
    (v_result # <<>>) =>
        (v_result[1] <=> (MIN_PRICE < v_price /\ v_price < MAX_PRICE))

\* C8 (amended): validate_price returns true exactly for the prices from 20
\* to 5000, both bounds included, and returns for every price.
C8_InclusiveBounds ==
    /\ (v_result # <<>>) =>
          (v_result[1] <=> (20 <= v_price /\ v_price <= 5000))
    /\ (pc = "validated") => (v_result # <<>>)

\* C8 witness: validate_price has accepted a price that lies on a bound.
C8_Witness ==
    /\ v_result = << TRUE >>
    /\ v_price \in { MIN_PRICE, MAX_PRICE }

\* C9 (as claimed): when the suggestion list holds a suggestion equal to
\* the location, the suggestion clicked is equal to the location.
C9_ExactMatchPreferred ==
    (/\ clicked.tier # 0
     /\ \E i \in 1..Len(suggestions) : suggestions[i] = booking.location)
        => clicked.text = booking.location

\* C10 (as claimed): the labels selected in the time lists are "Noon" for
\* "12:00 PM", "Midnight" for "12:00 AM" and the time string otherwise.
C10_TimeLabels ==
    /\ (Len(labels) >= 1) =>
          labels[1] = convert_to_costco_time(booking.pickup_time)
    /\ (Len(labels) >= 2) =>
          labels[2] = convert_to_costco_time(booking.dropoff_time)

\* C11 (as claimed): when results detection gives up (the search was
\* submitted and the address never became a results address, or no car
\* listing appeared), the exception raised is a TimeoutException, and the
\* check's failure output holds the last address of the page by the time
\* check_prices handles the failure.
C11_TimeoutWithLastUrl ==
    /\ (pc = "fs_handler" /\ InStages("search_submitted"))
          => exc = "TimeoutException"
    /\ (/\ pc = "cp_handler"
        /\ InStages("search_submitted")
        /\ ~ InStages("results_detected"))
          => Printed("Current URL", "url", TRUE) \in out

\* C12 (as claimed): every call of check_prices after the first of a run
\* starts right after the pacing delay: the last thing main did before the
\* call was asyncio.sleep(5), whether the earlier check returned or raised.
C12_DelayBetweenChecks ==
    (pc = "cp_lookup" /\ idx > 1) =>
        (log # <<>> /\ log[Len(log)] = "sleep")

\* C13: every call of check_prices terminates: once the call has started,
\* control comes back to the loop of main (by return or by exception),
\* however long the page withholds what the waits are polling for.
C13_CheckTerminates ==
    (pc = "cp_lookup") ~> (pc = "main_after")

\* C13 witness: a check has come back to main after a wait ran out: the
\* timeout reached main and the session was released.
C13_Witness ==
    /\ pc = "main_after"
    /\ exc = "TimeoutException"
    /\ quits = 1

\* C14 (as claimed): when the insert fails after a quote was extracted,
\* check_prices raises to main, and what the check printed or logged about
\* the failure holds the categories and prices of the extracted quote.
C14_InsertFailureSurfacesQuote ==
    (/\ pc = "main_after"
     /\ InStages("extract")
     /\ ~ InStages("insert")
     /\ prices # <<>>)
        => /\ exc # "none"
           /\ \E o \in out : o.failure /\ o.data = "quote"

\* C15: when a required startup parameter is missing, the run ends in the
\* fatal error of main before anything else happens: no booking is listed
\* or checked, no browser session is acquired, no snapshot is inserted.
C15_MissingParamIsFatal ==
    (\E p \in Params : ~ config[p]) =>
        /\ pc \in { "main_start", "fatal" }
        /\ (pc = "fatal") => (log = << "fatal" >>)
        /\ bookings = <<>>
        /\ idx = 0
        /\ checked = <<>>
        /\ driver = "none"
        /\ quits = 0
        /\ stages = <<>>
        /\ price_history = <<>>

\* C15 witness: the run has ended in the fatal error with the path of the
\* driver as the only missing parameter.
C15_Witness ==
    /\ pc = "fatal"
    /\ ~ config["CHROMEDRIVER_PATH"]
    /\ \A p \in Params \ { "CHROMEDRIVER_PATH" } : config[p]

\* C16: the history is append-only: a step of the program either leaves
\* price_history as it is or adds one row at its end, keyed by the booking
\* id of the running check and only if that check has not added a row yet;
\* so the rows already there stay in place unchanged, and no booking id has
\* more rows than the one check made for it.
C16_AppendOnly ==
    /\ [] (\A i \in 1..NumBookings : Cardinality(RowsOf(i)) <= 1)
    /\ [][ \/ price_history' = price_history
           \/ /\ pc = "cp_store"
              /\ ~ InStages("insert")
              /\ Len(price_history') = Len(price_history) + 1
              /\ SubSeq(price_history', 1, Len(price_history)) = price_history
              /\ price_history'[Len(price_history')].booking_id = bookings[idx]
         ]_vars

\* C16 witness: the second check of a run has added its row behind the row
\* of the first.
C16_Witness ==
    /\ Len(price_history) = 2
    /\ price_history[1].booking_id = 1
    /\ price_history[2].booking_id = 2
    /\ pc = "cp_finally"

\* C17 (as claimed): a check whose snapshot insert succeeded returns
\* normally: when check_prices comes back to main after an insert, no
\* exception is in flight.
C17_StoredCheckReturns ==
    (pc = "main_after" /\ InStages("insert")) => exc = "none"

\* C18 (as claimed): no browser operation is invoked on a session after
\* driver.quit() was called on it.
C18_NoUseAfterQuit ==
    ~ usedAfterQuit

\* the steps of fill_search_form up to the click of the search button
FormSteps ==
    << "location_entered", "location_confirmed", "dates_set", "times_set",
       "age_confirmed", "search_submitted" >>

\* C19: the steps of fill_search_form complete in the order location
\* entered, location confirmed, dates set, times set, age confirmed, search
\* submitted, each once and each only after the one before it; the form
\* fill is past the time lists only with both labels selected, past the
\* location only with a suggestion clicked, and a step that fails raises
\* to the except clause with the search button not clicked.
C19_FormStepsInOrder ==
    /\ \A k \in 1..Len(FormSteps) :
          InStages(FormSteps[k]) =>
             /\ Cardinality({ i \in 1..Len(stages) : stages[i] = FormSteps[k] }) = 1
             /\ (k > 1) => /\ InStages(FormSteps[k - 1])
                           /\ StagePos(FormSteps[k - 1]) < StagePos(FormSteps[k])
    /\ (pc \in { "fs_age", "fs_search", "fs_wait_url", "fs_wait_listings" }) =>
          /\ InStages("times_set")
          /\ InStages("location_confirmed")
          /\ labels = << convert_time(booking.pickup_time),
                         convert_time(booking.dropoff_time) >>
    /\ (pc \in { "fs_wait_url", "fs_wait_listings" }) => InStages("search_submitted")
    /\ (pc = "fs_handler") => exc # "none"

\* C19 witness: the dropoff label was not in the option list: the form
\* fill is in its except clause after the dates, with the times not set
\* and the search button not clicked.
C19_Witness ==
    /\ pc = "fs_handler"
    /\ exc = "NoSuchElementException"
    /\ InStages("dates_set")
    /\ Len(labels) = 2
    /\ ~ InStages("times_set")
    /\ ~ InStages("search_submitted")

\* C20: fill_search_form returns without raising only after both signals
\* were observed: the address of the page is not the address of the search
\* page, and at least one car listing is present on the page.
C20_ResultsDetected ==
    /\ (pc = "cp_extract") =>
          /\ InStages("results_detected")
          /\ current_url # NoUrl
          /\ current_url # SearchUrl
          /\ listings > 0
    /\ InStages("results_detected") => InStages("search_submitted")

\* C20 witness: fill_search_form has returned with the page at a vehicles
\* address and with listings on it.
C20_Witness ==
    /\ pc = "cp_extract"
    /\ current_url = << "Rental-Cars", "Vehicles" >>
    /\ listings = MaxRows

\* C21 (as claimed): the fallback lookup of the location (the first
\* suggestion of the list) is attempted only after the wait of the lookup
\* before it has timed out, and the form fill is at the dates or beyond only
\* with a suggestion clicked.
C21_FallbackOnlyAfterTimeout ==
    /\ (pc = "fs_fallback") => dropdown_exc = "TimeoutException"
    /\ (pc \in { "fs_dates", "fs_times", "fs_age", "fs_search" }) =>
          InStages("location_confirmed")

\* a row extract_prices can read: the category element is there and float()
\* accepts the data-price attribute
Readable(row) == row.category # None /\ FloatOk(row.data_price)

\* the last readable row of a page that carries category c
LastReadable(rows, c) ==
    CHOOSE i \in 1..Len(rows) :
        /\ Readable(rows[i])
        /\ rows[i].category = c
        /\ \A k \in (i + 1)..Len(rows) :
              ~ (Readable(rows[k]) /\ rows[k].category = c)

\* C22 (as claimed): every readable row of the page appears in the quote
\* extract_prices returns, with its own price, and a row that cannot be read
\* contributes no entry.
C22_EveryReadableRowKept ==
    (pc = "cp_store") =>
        /\ \A i \in 1..Len(car_rows) :
              Readable(car_rows[i]) =>
                 \E j \in 1..Len(prices) :
                    prices[j] = << car_rows[i].category,
                                   float(car_rows[i].data_price) >>
        /\ \A j \in 1..Len(prices) :
              \E i \in 1..Len(car_rows) :
                 /\ Readable(car_rows[i])
                 /\ prices[j] = << car_rows[i].category,
                                   float(car_rows[i].data_price) >>

\* C22 (amended): a row that cannot be read contributes no entry and does
\* not abort the extraction; the quote holds one entry for each category
\* that a readable row carries, with the price of the last readable row of
\* that category, and extraction fails only when the wait for the rows or
\* find_elements fails.
C22_LastReadableRowKept ==
    /\ (pc = "cp_store") =>
          /\ \A i \in 1..Len(car_rows) :
                Readable(car_rows[i]) =>
                   \E j \in 1..Len(prices) :
                      prices[j] =
                         << car_rows[i].category,
                            float(car_rows[LastReadable(car_rows,
                                     car_rows[i].category)].data_price) >>
          /\ \A j \in 1..Len(prices) :
                \E i \in 1..Len(car_rows) :
                   /\ Readable(car_rows[i])
                   /\ prices[j] = << car_rows[i].category,
                                     float(car_rows[i].data_price) >>
          /\ \A j, k \in 1..Len(prices) :
                (prices[j][1] = prices[k][1]) => (j = k)
    /\ (/\ pc = "cp_handler"
        /\ InStages("results_detected")
        /\ ~ InStages("extract"))
          => exc \in { "WebDriverException", "TimeoutException" }

\* C22 witness: a page with a readable row followed by a row that cannot
\* be read was extracted, and the quote holds the readable row alone.
C22_Witness ==
    /\ pc = "cp_store"
    /\ Len(car_rows) = 2
    /\ Readable(car_rows[1])
    /\ ~ Readable(car_rows[2])
    /\ prices = << << car_rows[1].category, float(car_rows[1].data_price) >> >>

\* C23: main attempts every listed booking once, in list order: the checks
\* made so far are the first bookings of the list, one each, the call in
\* progress is the one for the next booking, and the loop only moves
\* forward; and whenever the list is not empty the run ends with the
\* completion message after the last booking, whichever checks failed.
C23_EachOnceThenCompleted ==
    /\ [] (/\ Len(checked) <= Len(bookings)
           /\ \A k \in 1..Len(checked) : checked[k].id = bookings[k]
           /\ (pc \notin { "main_start", "main_list", "loop", "done", "fatal" })
                 => (idx \in 1..Len(bookings) /\ Len(checked) = idx - 1))
    /\ [][ idx' \in { idx, idx + 1 } ]_vars
    /\ (bookings # <<>>) ~>
          (/\ pc = "done"
           /\ Len(checked) = Len(bookings)
           /\ log # <<>>
           /\ log[Len(log)] = "completed")

\* C23 witness: a run over a full list has ended with the completion
\* message although no check of it stored a snapshot.
C23_Witness ==
    /\ pc = "done"
    /\ Len(bookings) = NumBookings
    /\ Len(checked) = NumBookings
    /\ log[Len(log)] = "completed"
    /\ \A k \in 1..Len(checked) : checked[k].outcome # "stored"

=============================================================================
